---- MODULE Spec2Model ----
(***************************************************************************)
(* Scene resolution and caching pipeline of the DnD music backend:         *)
(* TTLCache (app/cache.py), MusicService.search / recommend and the scene  *)
(* resolver (app/music_service.py), over the catalog model of              *)
(* app/models.py.                                                          *)
(*                                                                         *)
(* Text is modelled as a sequence of one-character strings, so that        *)
(* lower(), strip(), the tokenizer, sorting and quote_plus are computed    *)
(* character by character as the code computes them.                       *)
(***************************************************************************)
EXTENDS Integers, Sequences, FiniteSets, TLC

VARIABLES
    ai_client,   \* MusicService._ai_client: the classifier stub, <<>> when not configured
    yt,          \* MusicService._yt: the video-search stub, <<>> when not configured
    requests,    \* the arguments the callers of this process pass to search / recommend
    now,         \* time.time()
    cache,       \* MusicService._cache._storage      (key -> _CacheEntry)
    rec_cache,   \* MusicService._rec_cache._storage  (key -> _CacheEntry)
    call,        \* the last completed search / recommend call and what it did
    prev,        \* the arguments and outcome of the call before it
    storage,     \* _storage of a stand-alone TTLCache instance
    last_set,    \* per key, the last set() on that instance since the last clear()
    got,         \* the last get() on that instance
    resolver,    \* the last _canonical_scene_slug evaluation on a drawn catalog
    machine,     \* one recommend request executed statement by statement
    race,        \* two threads, each running get() then set() on one TTLCache
    tagger       \* one NeuralTaggerClient and its recommend_scene call, post by post

vars == <<ai_client, yt, requests, now, cache, rec_cache, call, prev, storage, last_set,
          got, resolver, machine, race, tagger>>

-----------------------------------------------------------------------------
(* Bounds *)

MaxTime == 2          \* the clock runs over 0..MaxTime
MaxVal == 2           \* values stored in the stand-alone cache are 1..MaxVal
MaxLen == 3           \* longest candidate text drawn for the resolver
MaxScenes == 2        \* largest catalog drawn for the resolver

\* An Optional value is None or <<v>>
None == <<>>

-----------------------------------------------------------------------------
(* Text *)

\* the characters used, in code-point order (Python compares str by code point)
Alphabet ==
    << " ", "!", "+", "-", "0", "1", ":", "A", "B", "D", "F", "O", "P", "T", "Z", "_",
       "a", "b", "c", "d", "e", "f", "g", "h", "i", "k", "l", "n", "o", "p",
       "r", "s", "t", "u", "v", "w", "z" >>

Ord(c) == CHOOSE i \in 1..Len(Alphabet) : Alphabet[i] = c

UpperToLower == ("A" :> "a") @@ ("B" :> "b") @@ ("D" :> "d") @@ ("F" :> "f")
                @@ ("O" :> "o") @@ ("P" :> "p") @@ ("T" :> "t") @@ ("Z" :> "z")

LowerChar(c) == IF c \in DOMAIN UpperToLower THEN UpperToLower[c] ELSE c

\* str.lower()
Lower(s) == [i \in 1..Len(s) |-> LowerChar(s[i])]

IsSpace(c) == c = " "

\* \w under re.UNICODE: letters, digits and the underscore
IsWordChar(c) == c \notin {" ", "!", "+", "-", ":"}

RECURSIVE LStrip(_)
LStrip(s) == IF s # <<>> /\ IsSpace(Head(s)) THEN LStrip(Tail(s)) ELSE s

RECURSIVE RStrip(_)
RStrip(s) ==
    IF s # <<>> /\ IsSpace(s[Len(s)]) THEN RStrip(SubSeq(s, 1, Len(s) - 1)) ELSE s

\* str.strip()
Strip(s) == RStrip(LStrip(s))

\* str.replace(old, new) for single characters
ReplaceChar(s, old, new) == [i \in 1..Len(s) |-> IF s[i] = old THEN new ELSE s[i]]

\* lexicographic order on text
RECURSIVE StrLess(_, _)
StrLess(a, b) ==
    IF b = <<>> THEN FALSE
    ELSE IF a = <<>> THEN TRUE
    ELSE IF Head(a) # Head(b) THEN Ord(Head(a)) < Ord(Head(b))
    ELSE StrLess(Tail(a), Tail(b))

RECURSIVE Insert(_, _)
Insert(x, sorted) ==
    IF sorted = <<>> THEN <<x>>
    ELSE IF StrLess(Head(sorted), x) THEN <<Head(sorted)>> \o Insert(x, Tail(sorted))
    ELSE <<x>> \o sorted

\* list.sort() on a list of str
RECURSIVE Sort(_)
Sort(l) == IF l = <<>> THEN <<>> ELSE Insert(Head(l), Sort(Tail(l)))

\* sep.join(parts)
RECURSIVE Join(_, _)
Join(parts, sep) ==
    IF parts = <<>> THEN <<>>
    ELSE IF Len(parts) = 1 THEN parts[1]
    ELSE parts[1] \o sep \o Join(Tail(parts), sep)

\* urllib.parse.quote_plus: a space becomes "+", unreserved characters stay,
\* every other character becomes its percent escape (one symbol here)
QuoteChar(c) ==
    IF c = " " THEN "+"
    ELSE IF IsWordChar(c) \/ c = "-" THEN c
    ELSE IF c = "!" THEN "%21"
    ELSE IF c = "+" THEN "%2B"
    ELSE "%3A"

quote_plus(s) == [i \in 1..Len(s) |-> QuoteChar(s[i])]

-----------------------------------------------------------------------------
(* MusicService._tokenize / _normalize_token *)

\* re.split(r"[^\w]+", value): cuts value at every maximal run of non-word
\* characters (parts holds the finished pieces, cur the piece being read)
RECURSIVE SplitNonWord(_, _, _)
SplitNonWord(s, parts, cur) ==
    IF s = <<>> THEN parts \o <<cur>>
    ELSE IF IsWordChar(Head(s)) THEN SplitNonWord(Tail(s), parts, Append(cur, Head(s)))
    ELSE IF Len(s) > 1 /\ ~IsWordChar(s[2]) THEN SplitNonWord(Tail(s), parts, cur)
    ELSE SplitNonWord(Tail(s), parts \o <<cur>>, <<>>)

\* [part for part in parts if part]
DropEmpty(parts) == SelectSeq(parts, LAMBDA p : p # <<>>)

tokenize(value) ==
    LET normalized_value == ReplaceChar(Lower(value), "_", " ")
    IN  DropEmpty(SplitNonWord(normalized_value, <<>>, <<>>))

normalize_token(value) == Join(tokenize(value), <<"_">>)

-----------------------------------------------------------------------------
(* MusicService._canonical_scene_slug *)

\* the elements of a list
Range(seq) == {seq[i] : i \in 1..Len(seq)}

\* the first element of ids that is in the set matching, as the for-loops return it
FirstMatch(ids, matching) ==
    LET found == SelectSeq(ids, LAMBDA id : id \in matching)
    IN  IF found = <<>> THEN None ELSE <<Head(found)>>

InTokens(t, tokens) == \E i \in 1..Len(tokens) : tokens[i] = t

\* lines 315-332, on scenes.keys() in dict order.  The genre lookup of lines
\* 309-313 is GenreKnown, evaluated by the caller before this.
\* a variant whose third rule accepts an id all of whose words are tokens of the name
canonical_scene_slug_allwords(scene_ids, scene_name) ==
    LET normalized_scene == normalize_token(scene_name)
        exact == FirstMatch(scene_ids,
                    {id \in Range(scene_ids) : normalize_token(id) = normalized_scene})
        prediction_tokens == tokenize(scene_name)
        member == FirstMatch(scene_ids,
                     {id \in Range(scene_ids) :
                         /\ normalize_token(id) # <<>>
                         /\ \A j \in 1..Len(tokenize(id)) :
                                InTokens(tokenize(id)[j], prediction_tokens)})
    IN  IF normalized_scene = <<>> THEN None
        ELSE IF exact # None THEN exact
        ELSE member

\* a variant with one loop, returning the first id that matches by either rule
canonical_scene_slug_oneloop(scene_ids, scene_name) ==
    LET normalized_scene == normalize_token(scene_name)
        prediction_tokens == tokenize(scene_name)
        either == FirstMatch(scene_ids,
                     {id \in Range(scene_ids) :
                         \/ normalize_token(id) = normalized_scene
                         \/ /\ normalize_token(id) # <<>>
                            /\ InTokens(normalize_token(id), prediction_tokens)})
    IN  IF normalized_scene = <<>> THEN None
        ELSE either

canonical_scene_slug(scene_ids, scene_name) ==
    LET normalized_scene == normalize_token(scene_name)
        exact == FirstMatch(scene_ids,
                    {id \in Range(scene_ids) : normalize_token(id) = normalized_scene})
        prediction_tokens == tokenize(scene_name)
        member == FirstMatch(scene_ids,
                     {id \in Range(scene_ids) :
                         /\ normalize_token(id) # <<>>
                         /\ InTokens(normalize_token(id), prediction_tokens)})
    IN  IF normalized_scene = <<>> THEN None
        ELSE IF exact # None THEN exact
        ELSE member

-----------------------------------------------------------------------------
(* app/cache.py: TTLCache *)

\* HysteresisConfig.cache_ttl_sec, handed to both caches by MusicService.__init__
cache_ttl_sec == 1

\* TTLCache.__init__ / TTLCache.clear: an empty _storage
EmptyStorage == [k \in {} |-> 0]

CacheEntry(value, expires_at) == [value |-> value, expires_at |-> expires_at]

\* TTLCache.get, the value returned
\* a variant that never looks at the expiry
TTLCache_get_noexpiry(st, key, t) ==
    IF key \notin DOMAIN st THEN None
    ELSE <<st[key].value>>

TTLCache_get(st, key, t) ==
    IF key \notin DOMAIN st THEN None
    ELSE IF st[key].expires_at < t THEN None
    ELSE <<st[key].value>>

\* a variant that pops the entry on every read
TTLCache_get_storage_pop(st, key, t) ==
    [k \in DOMAIN st \ {key} |-> st[k]]

\* TTLCache.get, the _storage it leaves: an expired entry is popped
TTLCache_get_storage(st, key, t) ==
    IF key \in DOMAIN st /\ st[key].expires_at < t
    THEN [k \in DOMAIN st \ {key} |-> st[k]]
    ELSE st

\* the value TTLCache.get pops because it has expired, if any
Evicted(st, key, t) ==
    IF key \in DOMAIN st /\ key \notin DOMAIN TTLCache_get_storage(st, key, t)
    THEN <<st[key].value>> ELSE None

\* a variant that forgets every other key
TTLCache_set_only(st, key, value, t) ==
    [k \in {key} |-> CacheEntry(value, t + cache_ttl_sec)]

\* TTLCache.set
TTLCache_set(st, key, value, t) ==
    [k \in DOMAIN st \cup {key} |->
        IF k = key THEN CacheEntry(value, t + cache_ttl_sec) ELSE st[k]]

-----------------------------------------------------------------------------
(* app/models.py: the catalog.  A dict is a sequence of its items in insertion *)
(* order; scene keys are lowercase (config._normalize_keys).                  *)

T_pirate == <<"p", "i", "r", "a", "t", "e">>
T_horror == <<"h", "o", "r", "r", "o", "r">>
T_west == <<"w", "e", "s", "t">>
T_battle == <<"b", "a", "t", "t", "l", "e">>
T_tavern_brawl == <<"t", "a", "v", "e", "r", "n", "_", "b", "r", "a", "w", "l">>
T_tension == <<"t", "e", "n", "s", "i", "o", "n">>
T_dragons == <<"d", "r", "a", "g", "o", "n", "s">>
T_fight == <<"f", "i", "g", "h", "t">>

\* PlaylistProviderConfig
Provider(name, url_template) == [name |-> name, url_template |-> url_template]

\* PlaylistProviderConfig.build_search: the template with {query} := quote_plus(query)
build_search(provider, query) ==
    [provider |-> provider.name,
     url |-> [url_template |-> provider.url_template, query |-> quote_plus(query)]]

BuildAll(providers, query) ==
    [i \in 1..Len(providers) |-> build_search(providers[i], query)]

\* SceneConfig, with the two video fields MusicService.search reads from it
SceneConfig(query, providers, youtube_playlist_id, youtube_video_ids) ==
    [query |-> query, providers |-> providers,
     youtube_playlist_id |-> youtube_playlist_id,
     youtube_video_ids |-> youtube_video_ids]

\* MusicConfig.hysteresis, copied into every result
Hysteresis == [min_confidence |-> 6, window_sec |-> 30, cooldown_sec |-> 60,
               cache_ttl_sec |-> cache_ttl_sec]

\* MusicConfig.genres: genre key -> GenreConfig
Genres ==
    (T_pirate :>
        [scenes |-> << <<T_battle,
                         SceneConfig(<<"s", "e", "a", " ", "b", "a", "t", "t", "l", "e">>,
                                     <<Provider("YouTube", "yt-scene")>>, None, <<>>)>>,
                       <<T_tavern_brawl,
                         SceneConfig(<<"t", "a", "v", "e", "r", "n", " ", "-", "c", "a", "l", "l">>,
                                     <<Provider("YouTube", "yt-scene"),
                                       Provider("Spotify", "sp-scene")>>,
                                     <<"PL1">>, <<"v0">>)>> >>,
         dynamic_defaults |-> << [providers |-> <<Provider("YouTube", "yt-dynamic")>>] >>])
    @@
    (T_horror :>
        [scenes |-> << <<T_tension,
                         SceneConfig(<<"t", "e", "n", "s", "e">>,
                                     <<Provider("YouTube", "yt-scene")>>, None, <<>>)>> >>,
         dynamic_defaults |-> None])

SceneKeys(genre_config) == [i \in 1..Len(genre_config.scenes) |-> genre_config.scenes[i][1]]

\* MusicConfig._get_genre_config: does genre.lower() name a genre
GenreKnown(genre) == Lower(genre) \in DOMAIN Genres

\* a variant that answers with the first genre's fallback
get_dynamic_defaults_anygenre(genre) == Genres[T_pirate].dynamic_defaults

\* MusicConfig.get_dynamic_defaults, for a genre of the catalog
get_dynamic_defaults(genre) == Genres[Lower(genre)].dynamic_defaults

\* a variant that reports every failed lookup as an unknown scene
get_scene_config_anyerror(genre, scene) ==
    IF ~GenreKnown(genre) THEN [error |-> "SceneNotFound", scene_config |-> None]
    ELSE LET scenes == Genres[Lower(genre)].scenes
             found == SelectSeq(scenes, LAMBDA item : item[1] = Lower(scene))
         IN  IF found = <<>> THEN [error |-> "SceneNotFound", scene_config |-> None]
             ELSE [error |-> "", scene_config |-> <<found[1][2]>>]

\* MusicConfig.get_scene / MusicService._get_scene_config: the SceneConfig, or
\* the error the KeyError message is turned into
get_scene_config(genre, scene) ==
    IF ~GenreKnown(genre) THEN [error |-> "GenreNotFound", scene_config |-> None]
    ELSE LET scenes == Genres[Lower(genre)].scenes
             found == SelectSeq(scenes, LAMBDA item : item[1] = Lower(scene))
         IN  IF found = <<>> THEN [error |-> "SceneNotFound", scene_config |-> None]
             ELSE [error |-> "", scene_config |-> <<found[1][2]>>]

-----------------------------------------------------------------------------
(* The collaborators *)

\* ScenePrediction; a confidence is counted in tenths (7 stands for 0.7)
ScenePrediction(scene, confidence, reason) ==
    [scene |-> scene, confidence |-> confidence, reason |-> reason]

P_brawl == ScenePrediction(<<"T", "a", "v", "e", "r", "n", " ", "B", "r", "a", "w", "l">>,
                           <<5>>, <<"stub">>)
P_battle == ScenePrediction(<<"d", "r", "a", "g", "o", "n", " ", "b", "a", "t", "t", "l", "e">>,
                            <<9>>, None)
P_bazaar == ScenePrediction(<<"O", "l", "d", " ", "B", "a", "z", "a", "a", "r">>,
                            <<4>>, <<"stub">>)
P_blank == ScenePrediction(<<"-", "!">>, None, None)
P_Battle == ScenePrediction(<<"B", "a", "t", "t", "l", "e">>, <<7>>, None)
P_tension == ScenePrediction(<<"t", "e", "n", "s", "i", "o", "n">>, <<8>>, None)
P_loud == ScenePrediction(<<"b", "a", "t", "t", "l", "e">>, <<85>>, None)
P_empty == ScenePrediction(<<>>, <<5>>, None)
P_space == ScenePrediction(<<" ">>, <<5>>, None)

\* what one call of the classifier does: it raises NeuralTaggerError, it raises
\* the decoding error of a body that is not JSON, or it answers
AiFails == [error |-> "NeuralTaggerError", prediction |-> None]
AiCrashes == [error |-> "JSONDecodeError", prediction |-> None]
AiAnswers(p) == [error |-> "", prediction |-> <<p>>]

\* what one call of YouTubeDataClient.search_embeddable_video_ids does: a list of
\* ids (possibly empty), YouTubeApiError on a non-200 response, or the httpx
\* error of a failed transport, which the client does not catch
YtOutcomes == {"ids", "empty", "YouTubeApiError", "HTTPError"}
YtIds == <<"v1", "v2">>

\* MusicService._sanitize_query_for_youtube
RECURSIVE SplitOn(_, _, _, _)
SplitOn(s, sep, parts, cur) ==
    IF s = <<>> THEN parts \o <<cur>>
    ELSE IF Head(s) = sep THEN SplitOn(Tail(s), sep, parts \o <<cur>>, <<>>)
    ELSE SplitOn(Tail(s), sep, parts, Append(cur, Head(s)))

sanitize_query_for_youtube(value) ==
    IF value = <<>> THEN <<>>
    ELSE LET tokens == [i \in DOMAIN SplitOn(value, " ", <<>>, <<>>) |->
                            Strip(SplitOn(value, " ", <<>>, <<>>)[i])]
             cleaned == SelectSeq(tokens, LAMBDA t : t # <<>> /\ Head(t) # "-")
         IN  Join(cleaned, <<" ">>)

-----------------------------------------------------------------------------
(* MusicService.search *)

\* SearchResult; born is the time of construction and tells one object from a
\* later reconstruction of the same data
SearchResult(genre, scene, query, playlists, youtube_playlist_id, youtube_video_ids) ==
    [genre |-> genre, scene |-> scene, query |-> query, playlists |-> playlists,
     hysteresis |-> Hysteresis, youtube_playlist_id |-> youtube_playlist_id,
     youtube_video_ids |-> youtube_video_ids, born |-> now]

\* the optional enrichment of lines 98-107 and 236-244: the video ids the
\* result ends with, given what the one call of the video-search client does
Enriched(video_ids, yt_outcome) ==
    IF yt_outcome = "ids" THEN YtIds ELSE video_ids

\* a variant that asks the video search for every result
ShouldEnrich_always(video_ids) == yt # None

\* line 98: the video search is asked only for a result without video list,
\* and only when a client is configured
ShouldEnrich(video_ids) == video_ids = <<>> /\ yt # None

\* what a call did, besides its result
Effects(cache_after, hit, evicted, catalog_lookups, yt_calls, yt_query, cache_writes) ==
    [cache |-> cache_after, hit |-> hit, evicted |-> evicted,
     catalog_lookups |-> catalog_lookups,
     yt_calls |-> yt_calls, yt_query |-> yt_query, cache_writes |-> cache_writes]

\* a variant that keys the cache by the arguments as given
search_cache_key_asgiven(genre, scene) == <<genre, scene>>

\* line 78: cache_key = (genre.lower(), scene.lower())
search_cache_key(genre, scene) == <<Lower(genre), Lower(scene)>>

\* search(genre, scene) on the search cache st; yt_outcome is what the video
\* search does if it is called
search(st, genre, scene, yt_outcome) ==
    LET cache_key == search_cache_key(genre, scene)
        cached == TTLCache_get(st, cache_key, now)
        st1 == TTLCache_get_storage(st, cache_key, now)
        looked == get_scene_config(genre, scene)
        scene_config == looked.scene_config[1]
        playlists == BuildAll(scene_config.providers, scene_config.query)
        result == SearchResult(cache_key[1], cache_key[2], scene_config.query, playlists,
                               scene_config.youtube_playlist_id,
                               scene_config.youtube_video_ids)
        enrich == ShouldEnrich(result.youtube_video_ids)
        cleaned == sanitize_query_for_youtube(result.query)
        yt_query == IF cleaned # <<>> THEN cleaned ELSE result.query
        final == [result EXCEPT !.youtube_video_ids = Enriched(@, yt_outcome)]
        evicted == Evicted(st, cache_key, now)
    IN  IF cached # None
        THEN [outcome |-> "ok", ret |-> cached] @@ Effects(st1, TRUE, evicted, 0, 0, None, 0)
        ELSE IF looked.error # ""
        THEN [outcome |-> looked.error, ret |-> None] @@ Effects(st1, FALSE, evicted, 1, 0, None, 0)
        ELSE IF ~enrich
        THEN [outcome |-> "ok", ret |-> <<result>>]
             @@ Effects(TTLCache_set(st1, cache_key, result, now), FALSE, evicted, 1, 0, None, 1)
        ELSE IF yt_outcome = "HTTPError"
        THEN [outcome |-> "HTTPError", ret |-> None]
             @@ Effects(st1, FALSE, evicted, 1, 1, <<yt_query>>, 0)
        ELSE [outcome |-> "ok", ret |-> <<final>>]
             @@ Effects(TTLCache_set(st1, cache_key, final, now), FALSE, evicted, 1, 1, <<yt_query>>, 1)

-----------------------------------------------------------------------------
(* MusicService.recommend *)

T_speech_input == <<"s", "p", "e", "e", "c", "h", "_", "i", "n", "p", "u", "t">>

\* hash(str): an integer that depends on every character and its position
hash(text) ==
    LET h[i \in 0..Len(text)] == IF i = 0 THEN 0 ELSE (31 * h[i - 1] + Ord(text[i])) % 64
    IN  h[Len(text)]

\* str(int), in binary digits
RECURSIVE Digits(_)
Digits(n) == IF n < 2 THEN <<IF n = 0 THEN "0" ELSE "1">>
             ELSE Digits(n \div 2) \o <<IF n % 2 = 0 THEN "0" ELSE "1">>

\* f"raw:{hash(raw_text.strip())}"
raw_key(text) == <<"r", "a", "w", ":">> \o Digits(hash(text))

\* a variant that keeps the caller's order
normalize_tags_unsorted(tags) ==
    [i \in DOMAIN SelectSeq(tags, LAMBDA t : Strip(t) # <<>>) |->
        Lower(Strip(SelectSeq(tags, LAMBDA t : Strip(t) # <<>>)[i]))]

\* a variant that keeps blank tags
normalize_tags_keepblank(tags) ==
    Sort([i \in DOMAIN tags |-> Lower(Strip(tags[i]))])

\* [str(t).strip().lower() for t in tags if str(t).strip()], then .sort()
normalize_tags(tags) ==
    Sort([i \in DOMAIN SelectSeq(tags, LAMBDA t : Strip(t) # <<>>) |->
             Lower(Strip(SelectSeq(tags, LAMBDA t : Strip(t) # <<>>)[i]))])

\* a variant that leaves the classifier's confidence and reason out
RecommendationResult_bare(base_result, scene_slug, query, playlists, tags, prediction) ==
    [genre |-> base_result.genre, scene |-> scene_slug, query |-> query,
     playlists |-> playlists, hysteresis |-> base_result.hysteresis,
     youtube_playlist_id |-> base_result.youtube_playlist_id,
     youtube_video_ids |-> base_result.youtube_video_ids,
     tags |-> tags, confidence |-> None, reason |-> None,
     born |-> now, built_from |-> base_result.born]

\* RecommendationResult(...) of lines 246-257
RecommendationResult(base_result, scene_slug, query, playlists, tags, prediction) ==
    [genre |-> base_result.genre, scene |-> scene_slug, query |-> query,
     playlists |-> playlists, hysteresis |-> base_result.hysteresis,
     youtube_playlist_id |-> base_result.youtube_playlist_id,
     youtube_video_ids |-> base_result.youtube_video_ids,
     tags |-> tags, confidence |-> prediction.confidence, reason |-> prediction.reason,
     born |-> now, built_from |-> base_result.born]

\* the constraint of RecommendationResult.confidence: Optional[float], ge=0.0, le=1.0
Validates(prediction) ==
    prediction.confidence = None \/ prediction.confidence[1] \in 0..10

\* what a recommend call did, besides its result
RecEffects(cache_after, rec_after, hit, path, ai_calls, inner, rec_writes, key, tags, prediction, canonical_scene, evicted) ==
    [cache |-> cache_after, rec_cache |-> rec_after, hit |-> hit, path |-> path,
     evicted |-> evicted,
     ai_calls |-> ai_calls, searches |-> inner.searches, search_hit |-> inner.hit,
     catalog_lookups |-> inner.catalog_lookups, yt_calls |-> inner.yt_calls,
     yt_query |-> inner.yt_query, cache_writes |-> inner.cache_writes,
     rec_writes |-> rec_writes, rec_key |-> key, normalized_tags |-> tags,
     prediction |-> prediction, canonical_scene |-> canonical_scene]

NoInner == [searches |-> 0, hit |-> FALSE, catalog_lookups |-> 0, yt_calls |-> 0,
            yt_query |-> None, cache_writes |-> 0]

\* the inner search of line 210, as the recommend call counts it
InnerSearch(found) ==
    [searches |-> 1, hit |-> found.hit,
     catalog_lookups |-> found.catalog_lookups, yt_calls |-> found.yt_calls,
     yt_query |-> found.yt_query, cache_writes |-> found.cache_writes]

\* the one video-search call of lines 236-244
InnerVideoSearch(query, cleaned) ==
    IF yt = None THEN NoInner
    ELSE [NoInner EXCEPT !.yt_calls = 1,
                         !.yt_query = <<IF cleaned # <<>> THEN cleaned ELSE query>>]

\* a variant that leaves the classifier's answer in the recommendation cache
Raise_storing(kind, path, ai_calls, inner, cache_after, rec_after, key, tags, prediction, canonical_scene, evicted) ==
    [outcome |-> kind, ret |-> None]
    @@ RecEffects(cache_after,
                  IF key # None /\ prediction # None
                  THEN TTLCache_set(rec_after, key[1], prediction[1], now)
                  ELSE rec_after,
                  FALSE, path, ai_calls, inner, 0, key, tags,
                  prediction, canonical_scene, evicted)

\* a recommend call that raises: nothing is returned, nothing is stored
Raise(kind, path, ai_calls, inner, cache_after, rec_after, key, tags, prediction, canonical_scene, evicted) ==
    [outcome |-> kind, ret |-> None]
    @@ RecEffects(cache_after, rec_after, FALSE, path, ai_calls, inner, 0, key, tags,
                  prediction, canonical_scene, evicted)

\* lines 259-261: the assembled result is stored and returned
StoreAndReturn(result, path, inner, cache_after, rec1, key, tags, prediction, canonical_scene, evicted) ==
    [outcome |-> "ok", ret |-> <<result>>]
    @@ RecEffects(cache_after, TTLCache_set(rec1, key, result, now), FALSE, path, 1,
                  inner, 1, <<key>>, tags, prediction, canonical_scene, evicted)

\* lines 206-210 and 246-261, given what the inner search did
recommend_canonical(found, rec1, key, tags, prediction, canonical_scene, evicted) ==
    IF found.outcome # "ok"
    THEN Raise(found.outcome, "canonical", 1, InnerSearch(found), found.cache, rec1,
               <<key>>, tags, <<prediction>>, canonical_scene, evicted)
    ELSE IF ~Validates(prediction)
    THEN Raise("ValidationError", "canonical", 1, InnerSearch(found), found.cache, rec1,
               <<key>>, tags, <<prediction>>, canonical_scene, evicted)
    ELSE StoreAndReturn(RecommendationResult(found.ret[1], found.ret[1].scene,
                                             found.ret[1].query, found.ret[1].playlists,
                                             tags, prediction),
                        "canonical", InnerSearch(found), found.cache, rec1, key, tags,
                        <<prediction>>, canonical_scene, evicted)

\* a variant that also puts the dynamic result into the search cache
recommend_dynamic_searchcached(st, rec1, key, tags, prediction, base_result, inner, evicted, yt_outcome) ==
    IF yt # None /\ yt_outcome = "HTTPError"
    THEN Raise("HTTPError", "fallback", 1, inner, st, rec1, <<key>>, tags, <<prediction>>,
               None, evicted)
    ELSE IF ~Validates(prediction)
    THEN Raise("ValidationError", "fallback", 1, inner, st, rec1, <<key>>, tags,
               <<prediction>>, None, evicted)
    ELSE StoreAndReturn(
             RecommendationResult(
                 IF yt = None THEN base_result
                 ELSE [base_result EXCEPT !.youtube_video_ids = Enriched(@, yt_outcome)],
                 base_result.scene, prediction.scene, base_result.playlists, tags,
                 prediction),
             "fallback", inner,
             TTLCache_set(st, <<base_result.genre, base_result.scene>>, base_result, now),
             rec1, key, tags, <<prediction>>, None, evicted)

\* lines 222-261, given the fallback's links and the slug of the scene name
recommend_dynamic(st, rec1, key, tags, prediction, base_result, inner, evicted, yt_outcome) ==
    IF yt # None /\ yt_outcome = "HTTPError"
    THEN Raise("HTTPError", "fallback", 1, inner, st, rec1, <<key>>, tags, <<prediction>>,
               None, evicted)
    ELSE IF ~Validates(prediction)
    THEN Raise("ValidationError", "fallback", 1, inner, st, rec1, <<key>>, tags,
               <<prediction>>, None, evicted)
    ELSE StoreAndReturn(
             RecommendationResult(
                 IF yt = None THEN base_result
                 ELSE [base_result EXCEPT !.youtube_video_ids = Enriched(@, yt_outcome)],
                 base_result.scene, prediction.scene, base_result.playlists, tags,
                 prediction),
             "fallback", inner, st, rec1, key, tags, <<prediction>>, None, evicted)

\* a variant that accepts an empty slug
recommend_fallback_anyslug(st, rec1, genre, key, tags, prediction, fallback, scene_slug, evicted, yt_outcome) ==
    IF fallback = None
    THEN Raise("RecommendationUnavailable", "no_fallback", 1, NoInner, st, rec1, <<key>>,
               tags, <<prediction>>, None, evicted)
    ELSE recommend_dynamic(st, rec1, key, tags, prediction,
                           SearchResult(Lower(genre), scene_slug, prediction.scene,
                                        BuildAll(fallback[1].providers, prediction.scene),
                                        None, <<>>),
                           InnerVideoSearch(prediction.scene,
                                            sanitize_query_for_youtube(prediction.scene)),
                           evicted, yt_outcome)

\* lines 211-221, given the genre's dynamic_defaults and the normalized scene name
recommend_fallback(st, rec1, genre, key, tags, prediction, fallback, scene_slug, evicted, yt_outcome) ==
    IF fallback = None
    THEN Raise("RecommendationUnavailable", "no_fallback", 1, NoInner, st, rec1, <<key>>,
               tags, <<prediction>>, None, evicted)
    ELSE IF scene_slug = <<>>
    THEN Raise("RecommendationUnavailable", "fallback", 1, NoInner, st, rec1, <<key>>,
               tags, <<prediction>>, None, evicted)
    ELSE recommend_dynamic(st, rec1, key, tags, prediction,
                           SearchResult(Lower(genre), scene_slug, prediction.scene,
                                        BuildAll(fallback[1].providers, prediction.scene),
                                        None, <<>>),
                           InnerVideoSearch(prediction.scene,
                                            sanitize_query_for_youtube(prediction.scene)),
                           evicted, yt_outcome)

\* lines 206-216, given the scene the classifier's answer resolved to.  The
\* raw-text path comes here with no canonical scene and a genre nobody checked:
\* get_dynamic_defaults then raises KeyError for a genre that is not in the catalog
recommend_resolved(st, rec1, genre, key, tags, prediction, canonical_scene, evicted, yt_outcome) ==
    IF canonical_scene # None
    THEN recommend_canonical(search(st, genre, canonical_scene[1], yt_outcome), rec1, key,
                             tags, prediction, canonical_scene, evicted)
    ELSE IF ~GenreKnown(genre)
    THEN Raise("KeyError", "fallback", 1, NoInner, st, rec1, <<key>>, tags, <<prediction>>,
               None, evicted)
    ELSE recommend_fallback(st, rec1, genre, key, tags, prediction,
                            get_dynamic_defaults(genre), normalize_token(prediction.scene),
                            evicted, yt_outcome)

\* _call_ai lines 280-283, _call_ai_with_text lines 298-301: NeuralTaggerError is
\* raised on as RecommendationUnavailableError, any other exception as it is
ClassifierError(ai_outcome) ==
    IF ai_outcome.error = "NeuralTaggerError" THEN "RecommendationUnavailable"
    ELSE ai_outcome.error

\* lines 181-186 and 200-204 with the classifier call that follows a miss:
\* _call_ai resolves the scene (and checks the genre), _call_ai_with_text
\* returns no canonical scene
recommend_lookup(st, cached, rec1, evicted, genre, use_raw, key, tags, ai_outcome, yt_outcome) ==
    IF cached # None
    THEN [outcome |-> "ok", ret |-> cached]
         @@ RecEffects(st, rec1, TRUE, "hit", 0, NoInner, 0, <<key>>, tags, None, None,
                       evicted)
    ELSE IF ai_outcome.error # ""
    THEN Raise(ClassifierError(ai_outcome), "classify", 1, NoInner, st, rec1, <<key>>,
               tags, ai_outcome.prediction, None, evicted)
    ELSE IF ~use_raw /\ ~GenreKnown(genre)
    THEN Raise("GenreNotFound", "resolve", 1, NoInner, st, rec1, <<key>>, tags,
               ai_outcome.prediction, None, evicted)
    ELSE recommend_resolved(st, rec1, genre, key, tags, ai_outcome.prediction[1],
                            IF use_raw THEN None
                            ELSE canonical_scene_slug(SceneKeys(Genres[Lower(genre)]),
                                                      ai_outcome.prediction[1].scene),
                            evicted, yt_outcome)

\* lines 175-204, given the path, the normalized tags and the cache key
recommend_keyed(st, rec, genre, use_raw, key, tags, ai_outcome, yt_outcome) ==
    IF ~use_raw /\ (tags = <<>> \/ ai_client = None)
    THEN Raise("RecommendationUnavailable", "", 0, NoInner, st, rec, None, tags, None,
               None, None)
    ELSE recommend_lookup(st, TTLCache_get(rec, key, now),
                          TTLCache_get_storage(rec, key, now), Evicted(rec, key, now),
                          genre, use_raw, key, tags, ai_outcome, yt_outcome)

\* line 175: the raw-text path is taken for a non-blank text when a classifier
\* is configured
UseRaw(raw_text) ==
    /\ raw_text # None
    /\ Strip(raw_text[1]) # <<>>
    /\ ai_client # None

\* lines 177-180 and 198: the tags and the cache key of the two paths
RecommendKey(genre, use_raw, raw_text, tags) ==
    IF use_raw THEN <<Lower(genre), <<raw_key(Strip(raw_text[1]))>> >>
    ELSE <<Lower(genre), tags>>

\* recommend(genre, tags, raw_text) on the two caches; ai_outcome and yt_outcome
\* are what the classifier and the video search do if they are called
recommend_tagged(st, rec, genre, use_raw, raw_text, tags, ai_outcome, yt_outcome) ==
    recommend_keyed(st, rec, genre, use_raw, RecommendKey(genre, use_raw, raw_text, tags),
                    tags, ai_outcome, yt_outcome)

recommend(st, rec, genre, tags, raw_text, ai_outcome, yt_outcome) ==
    recommend_tagged(st, rec, genre, UseRaw(raw_text), raw_text,
                     IF UseRaw(raw_text) THEN <<T_speech_input>> ELSE normalize_tags(tags),
                     ai_outcome, yt_outcome)

-----------------------------------------------------------------------------
(* The service driven by its callers *)

CallRecord(op, genre, scene, tags, raw_text, r) ==
    [op |-> op, genre |-> genre, scene |-> scene, tags |-> tags, raw_text |-> raw_text,
     at |-> now, outcome |-> r.outcome, ret |-> r.ret, hit |-> r.hit,
     evicted |-> r.evicted, path |-> r.path,
     ai_calls |-> r.ai_calls, searches |-> r.searches, search_hit |-> r.search_hit,
     catalog_lookups |-> r.catalog_lookups, yt_calls |-> r.yt_calls,
     yt_query |-> r.yt_query, cache_writes |-> r.cache_writes,
     rec_writes |-> r.rec_writes, rec_key |-> r.rec_key,
     normalized_tags |-> r.normalized_tags, prediction |-> r.prediction,
     canonical_scene |-> r.canonical_scene, yt_outcome |-> r.yt_outcome]

NoCall ==
    [op |-> "none", genre |-> <<>>, scene |-> <<>>, tags |-> <<>>, raw_text |-> None,
     at |-> 0, outcome |-> "", ret |-> None, hit |-> FALSE, evicted |-> None, path |-> "",
     ai_calls |-> 0, searches |-> 0, search_hit |-> FALSE, catalog_lookups |-> 0,
     yt_calls |-> 0, yt_query |-> None, cache_writes |-> 0, rec_writes |-> 0,
     rec_key |-> None, normalized_tags |-> <<>>, prediction |-> None,
     canonical_scene |-> None, yt_outcome |-> None]

\* the arguments of a call, and how it ended
Args(c) == [op |-> c.op, genre |-> c.genre, scene |-> c.scene, tags |-> c.tags,
            raw_text |-> c.raw_text, outcome |-> c.outcome]

\* what the video search did in a call that reached it
YtOutcome(r, yt_outcome) == IF r.yt_calls = 1 THEN <<yt_outcome>> ELSE None

\* what the collaborators may do in one call
AiChoices == IF ai_client = None THEN {AiFails} ELSE ai_client[1]
YtChoices == IF yt = None THEN {"empty"} ELSE yt[1]

\* the service after a search call that did r
SearchDone(genre, scene, r, yt_outcome) ==
    /\ cache' = r.cache
    /\ call' = CallRecord("search", genre, scene, <<>>, None,
                          r @@ [path |-> "", ai_calls |-> 0, searches |-> 1,
                                search_hit |-> r.hit, rec_writes |-> 0,
                                rec_key |-> None, normalized_tags |-> <<>>,
                                prediction |-> None, canonical_scene |-> None,
                                yt_outcome |-> YtOutcome(r, yt_outcome)])
    /\ prev' = Args(call)
    /\ UNCHANGED <<machine, race, tagger, ai_client, yt, requests, now, rec_cache, storage, last_set, got,
                   resolver>>

SearchCall(genre, scene, yt_outcome) ==
    SearchDone(genre, scene, search(cache, genre, scene, yt_outcome), yt_outcome)

\* the service after a recommend call that did r
RecommendDone(genre, tags, raw_text, r, yt_outcome) ==
    /\ cache' = r.cache
    /\ rec_cache' = r.rec_cache
    /\ call' = CallRecord("recommend", genre, <<>>, tags, raw_text,
                          r @@ [yt_outcome |-> YtOutcome(r, yt_outcome)])
    /\ prev' = Args(call)
    /\ UNCHANGED <<machine, race, tagger, ai_client, yt, requests, now, storage, last_set, got, resolver>>

RecommendCall(genre, tags, raw_text, ai_outcome, yt_outcome) ==
    RecommendDone(genre, tags, raw_text,
                  recommend(cache, rec_cache, genre, tags, raw_text, ai_outcome, yt_outcome),
                  yt_outcome)

-----------------------------------------------------------------------------
(* The clock, shared by every specification *)

Tick ==
    /\ now < MaxTime
    /\ now' = now + 1
    /\ UNCHANGED <<machine, race, tagger, ai_client, yt, requests, cache, rec_cache, call, prev, storage,
                   last_set, got, resolver>>

-----------------------------------------------------------------------------
(* A stand-alone TTLCache driven by arbitrary set / get / clear calls *)

CacheKeys == {"k1", "k2"}
CacheValues == 1..MaxVal

NoGet == [done |-> FALSE, key |-> "k1", value |-> None, at |-> 0, shadow |-> None]

CacheSet(k, v) ==
    /\ storage' = TTLCache_set(storage, k, v, now)
    /\ last_set' = [x \in DOMAIN last_set \cup {k} |->
                      IF x = k THEN [value |-> v, at |-> now] ELSE last_set[x]]
    /\ UNCHANGED <<machine, race, tagger, ai_client, yt, requests, now, cache, rec_cache, call, prev, got, resolver>>

\* got.shadow is what last_set held for the key when get() ran
CacheGet(k) ==
    /\ got' = [done |-> TRUE, key |-> k, value |-> TTLCache_get(storage, k, now),
               at |-> now,
               shadow |-> IF k \in DOMAIN last_set THEN <<last_set[k]>> ELSE None]
    /\ storage' = TTLCache_get_storage(storage, k, now)
    /\ UNCHANGED <<machine, race, tagger, ai_client, yt, requests, now, cache, rec_cache, call, prev, last_set, resolver>>

CacheClear ==
    /\ storage # EmptyStorage
    /\ storage' = EmptyStorage
    /\ last_set' = EmptyStorage
    /\ UNCHANGED <<machine, race, tagger, ai_client, yt, requests, now, cache, rec_cache, call, prev, got, resolver>>

NoResolve == [done |-> FALSE, scenes |-> <<>>, scene_name |-> <<>>, result |-> None]

\* no request is being executed statement by statement
NoMachine ==
    [phase |-> "IDLE", trace |-> <<>>, genre |-> <<>>, tags |-> <<>>, raw_text |-> None,
     use_raw |-> FALSE, normalized_tags |-> <<>>, key |-> None, prediction |-> None,
     canonical_scene |-> None, ai_calls |-> 0, yt_calls |-> 0, error |-> "", ret |-> None]

\* no thread is running
NoRace ==
    [started |-> FALSE, key |-> "k1", initial |-> EmptyStorage,
     pc |-> <<"idle", "idle">>, entry |-> <<None, None>>, popped |-> <<None, None>>,
     set_at |-> <<0, 0>>, sets |-> <<0, 0>>]

\* what NeuralTaggerClient.recommend_scene ends with
Returned(prediction) == [error |-> "", prediction |-> <<prediction>>]
Failed(kind) == [error |-> kind, prediction |-> None]

\* the endpoints a client is built with: chat is _is_openai_chat_endpoint,
\* model whether _extract_oai_model finds one, plain is _should_use_plain_prompt,
\* alt whether _alt_hf_endpoint names a second URL
Endpoint(chat, model, plain, alt) == [chat |-> chat, model |-> model, plain |-> plain, alt |-> alt]

\* a client before its first call
NoTagger ==
    [pc |-> "idle", endpoint |-> Endpoint(FALSE, FALSE, FALSE, FALSE), labels |-> FALSE,
     attempt |-> 0, response |-> None, outcome |-> [error |-> "", prediction |-> None]]

IdleService ==
    /\ tagger = NoTagger
    /\ ai_client = None
    /\ yt = None
    /\ requests = 0
    /\ cache = EmptyStorage
    /\ rec_cache = EmptyStorage
    /\ call = NoCall
    /\ prev = Args(NoCall)

InitCache ==
    /\ IdleService
    /\ now = 0
    /\ storage = EmptyStorage
    /\ last_set = EmptyStorage
    /\ got = NoGet
    /\ resolver = NoResolve
    /\ machine = NoMachine
    /\ race = NoRace

NextCache ==
    \/ \E k \in CacheKeys, v \in CacheValues : CacheSet(k, v)
    \/ \E k \in CacheKeys : CacheGet(k)
    \/ CacheClear
    \/ Tick

SpecCache == InitCache /\ [][NextCache]_vars

\* C3: get(key) returns a value only if it is the last value set for key since
\* the last clear and the time of the get is not past time-of-set + ttl; for a
\* key never set, cleared, or past its expiry it returns None.
C3_GetNeverStale ==
    got.done =>
        /\ got.value # None =>
              /\ got.shadow # None
              /\ got.value = <<got.shadow[1].value>>
              /\ got.at <= got.shadow[1].at + cache_ttl_sec
        /\ (got.shadow = None \/ got.at > got.shadow[1].at + cache_ttl_sec) =>
              got.value = None

\* a get that ran after an overwrite of its key and returned the newer value, and
\* (reached separately) a get that found its key expired
C3_WitnessLive ==
    /\ got.done /\ got.value # None /\ got.at = got.shadow[1].at + cache_ttl_sec
    /\ got.at > 0

C3_WitnessExpired ==
    got.done /\ got.shadow # None /\ got.value = None

-----------------------------------------------------------------------------
(* The resolver applied to drawn catalogs and candidate texts *)

ResolverChars == {"a", "b", "B", " ", "_", "-"}

RECURSIVE TextsUpTo(_)
TextsUpTo(n) ==
    IF n = 0 THEN {<<>>}
    ELSE LET shorter == TextsUpTo(n - 1)
         IN  shorter \cup {Append(t, c) : t \in shorter, c \in ResolverChars}

Candidates == TextsUpTo(MaxLen)

\* scene keys as the catalog holds them: lowercase, one word or several
ResolverIds == { <<"a">>, <<"b">>, <<"a", "_", "b">>, <<"b", "-", "a">>, <<"a", "b">> }

RECURSIVE CatalogsUpTo(_)
CatalogsUpTo(n) ==
    IF n = 0 THEN {<<>>}
    ELSE LET shorter == CatalogsUpTo(n - 1)
         IN  shorter \cup
             {Append(c, id) : c \in shorter,
                              id \in ResolverIds}

Distinct(seq) == \A i, j \in 1..Len(seq) : i # j => seq[i] # seq[j]

ResolverCatalogs == {c \in CatalogsUpTo(MaxScenes) : Distinct(c)}

Resolve(scene_name) ==
    /\ ~resolver.done
    /\ resolver' = [done |-> TRUE, scenes |-> resolver.scenes, scene_name |-> scene_name,
                    result |-> canonical_scene_slug(resolver.scenes, scene_name)]
    /\ UNCHANGED <<machine, race, tagger, ai_client, yt, requests, now, cache, rec_cache, call, prev, storage,
                   last_set, got>>

InitResolver ==
    /\ IdleService
    /\ now = 0
    /\ storage = EmptyStorage
    /\ last_set = EmptyStorage
    /\ got = NoGet
    /\ machine = NoMachine
    /\ race = NoRace
    /\ resolver \in {[done |-> FALSE, scenes |-> c, scene_name |-> <<>>, result |-> None] :
                        c \in ResolverCatalogs}

NextResolver == \E scene_name \in Candidates : Resolve(scene_name)

SpecResolver == InitResolver /\ [][NextResolver]_vars

IsSingleWord(id) == Len(tokenize(id)) = 1
IsMultiWord(id) == Len(tokenize(id)) > 1

\* C10: a single-word scene-id that is one of the candidate's tokens makes the
\* resolver match (it returns that id unless an exact match or an earlier
\* single-word id wins); a multi-word scene-id is never a member of the
\* candidate's tokens, and is returned only when the candidate's normalized form
\* equals the id's normalized form.
C10_TokenMembership ==
    resolver.done =>
        LET ids == resolver.scenes
            tokens == tokenize(resolver.scene_name)
            r == resolver.result
        IN  /\ \A i \in 1..Len(ids) :
                  (IsSingleWord(ids[i]) /\ InTokens(normalize_token(ids[i]), tokens))
                      => /\ r # None
                         /\ \/ normalize_token(r[1]) = normalize_token(resolver.scene_name)
                            \/ /\ IsSingleWord(r[1])
                               /\ InTokens(normalize_token(r[1]), tokens)
                               /\ \E j \in 1..i : ids[j] = r[1]
            /\ \A i \in 1..Len(ids) :
                  IsMultiWord(ids[i]) => ~InTokens(normalize_token(ids[i]), tokens)
            /\ (r # None /\ IsMultiWord(r[1]))
                  => normalize_token(r[1]) = normalize_token(resolver.scene_name)

\* "b" found inside a longer candidate while the multi-word id of the same
\* catalog, whose words the candidate also holds, is not returned
C10_Witness ==
    /\ resolver.done
    /\ resolver.scenes = << <<"a", "_", "b">>, <<"b">> >>
    /\ resolver.scene_name = <<"b", " ", "a">>
    /\ resolver.result = << <<"b">> >>

C10_WitnessExact ==
    /\ resolver.done
    /\ resolver.result = << <<"a", "_", "b">> >>
    /\ resolver.scene_name = <<"a", "-", "B">>

\* the scene-id at position i matches the candidate exactly
ExactAt(i) == normalize_token(resolver.scenes[i]) = normalize_token(resolver.scene_name)

\* the scene-id at position i is one of the candidate's tokens
TokenAt(i) ==
    /\ normalize_token(resolver.scenes[i]) # <<>>
    /\ InTokens(normalize_token(resolver.scenes[i]), tokenize(resolver.scene_name))

\* C25: the resolver applies its rules in order over the whole catalog: when
\* some scene-id matches the candidate exactly the first such id is returned,
\* wherever a token-matching id stands; when none matches exactly the first
\* token-matching id in catalog order is returned; otherwise, and for a
\* candidate that normalizes to nothing, there is no match.
C25_RulesInOrder ==
    resolver.done =>
        LET positions == 1..Len(resolver.scenes)
            r == resolver.result
        IN  IF normalize_token(resolver.scene_name) = <<>> THEN r = None
            ELSE IF \E i \in positions : ExactAt(i)
            THEN \E i \in positions :
                    /\ r = <<resolver.scenes[i]>>
                    /\ ExactAt(i)
                    /\ \A j \in 1..(i - 1) : ~ExactAt(j)
            ELSE IF \E i \in positions : TokenAt(i)
            THEN \E i \in positions :
                    /\ r = <<resolver.scenes[i]>>
                    /\ TokenAt(i)
                    /\ \A j \in 1..(i - 1) : ~TokenAt(j)
            ELSE r = None

\* the id "b" is a token of the candidate and comes first, the id "a_b" matches
\* exactly and is returned
C25_Witness ==
    /\ resolver.done
    /\ resolver.scenes = << <<"b">>, <<"a", "_", "b">> >>
    /\ resolver.scene_name = <<"a", " ", "b">>
    /\ TokenAt(1) /\ ~ExactAt(1) /\ ExactAt(2)
    /\ resolver.result = << <<"a", "_", "b">> >>

\* two ids are tokens of the candidate and none matches exactly: the earlier wins
C25_WitnessTokenOrder ==
    /\ resolver.done
    /\ resolver.scenes = << <<"b">>, <<"a">> >>
    /\ resolver.scene_name = <<"a", "-", "b">>
    /\ resolver.result = << <<"b">> >>

-----------------------------------------------------------------------------
(* The service specification *)

T_raw == <<" ", "o", "r", "c", "s", " ", "a", "t", "t", "a", "c", "k">>

T_Pirate == <<"P", "i", "r", "a", "t", "e">>
T_BATTle == <<"B", "A", "T", "T", "l", "e">>

T_Dragons_Battle == << T_dragons \o <<" ">>, <<" ", "B", "a", "t", "t", "l", "e">> >>

Requests(genres, scenes, tag_lists, raw_texts) ==
    [genres |-> genres, scenes |-> scenes, tag_lists |-> tag_lists, raw_texts |-> raw_texts]

Scenario(ai, y, req) == [ai |-> ai, yt |-> y, requests |-> req]

\* the processes checked: which collaborators are configured and how they
\* behave, and which arguments the callers pass
Scenarios ==
    { \* no classifier, no video search: plain search, recommend refused
      Scenario(None, None,
               Requests({T_pirate, T_west}, {T_battle, T_fight},
                        {<<T_fight>>}, {None, <<T_raw>>})),
      \* search with the video search configured
      Scenario(None, <<YtOutcomes>>,
               Requests({T_pirate}, {T_battle, T_tavern_brawl}, {<<>>}, {None})),
      \* tags resolved to catalog scenes
      Scenario(<<{AiFails, AiAnswers(P_brawl), AiAnswers(P_battle)}>>, None,
               Requests({T_pirate}, {T_battle},
                        {<<T_battle, T_dragons>>, T_Dragons_Battle}, {None})),
      \* a catalog scene that needs the video search, and a genre nobody knows
      Scenario(<<{AiAnswers(P_Battle)}>>, <<{"ids", "HTTPError"}>>,
               Requests({T_pirate, T_west}, {T_battle}, {<<T_fight>>}, {None})),
      \* tags nobody can resolve, with and without dynamic fallback
      Scenario(<<{AiAnswers(P_bazaar), AiAnswers(P_blank)}>>, <<{"ids", "HTTPError"}>>,
               Requests({T_pirate, T_horror}, {T_battle},
                        {<< <<" ">> >>, <<T_fight>>}, {None})),
      \* a caller's tag that spells the cache key of a raw text
      Scenario(<<{AiAnswers(P_tension)}>>, None,
               Requests({T_horror}, {T_tension}, {<<raw_key(Strip(T_raw))>>},
                        {None, <<T_raw>>})),
      \* a classifier whose body is not JSON, whose confidence is out of range,
      \* whose scene name is empty or blank
      Scenario(<<{AiCrashes, AiAnswers(P_loud), AiAnswers(P_empty), AiAnswers(P_space)}>>,
               None,
               Requests({T_pirate, T_horror}, {T_battle}, {<<T_fight>>}, {None, <<T_raw>>})),
      \* genre and scene in another letter case
      Scenario(None, <<{"ids"}>>,
               Requests({T_pirate, T_Pirate}, {T_battle, T_BATTle}, {<<>>}, {None})),
      \* raw text
      Scenario(<<{AiFails, AiAnswers(P_battle)}>>, <<{"YouTubeApiError"}>>,
               Requests({T_pirate, T_horror, T_west}, {T_battle}, {<<>>},
                        {<< <<" ">> >>, <<T_raw>>})) }

Init ==
    /\ tagger = NoTagger
    /\ \E sc \in Scenarios :
          /\ ai_client = sc.ai
          /\ yt = sc.yt
          /\ requests = sc.requests
    /\ now = 0
    /\ cache = EmptyStorage
    /\ rec_cache = EmptyStorage
    /\ call = NoCall
    /\ prev = Args(NoCall)
    /\ storage = EmptyStorage
    /\ last_set = EmptyStorage
    /\ got = NoGet
    /\ resolver = NoResolve
    /\ machine = NoMachine
    /\ race = NoRace

Next ==
    \/ \E genre \in requests.genres, scene \in requests.scenes, yt_outcome \in YtChoices :
          SearchCall(genre, scene, yt_outcome)
    \/ \E genre \in requests.genres, tags \in requests.tag_lists,
          raw_text \in requests.raw_texts, ai_outcome \in AiChoices,
          yt_outcome \in YtChoices :
          RecommendCall(genre, tags, raw_text, ai_outcome, yt_outcome)
    \/ Tick

Spec == Init /\ [][Next]_vars

-----------------------------------------------------------------------------
(* One recommend request, statement by statement.  The phases are the stages *)
(* of MusicService.recommend: START (lines 175-199, the path is chosen and    *)
(* the tags are normalised), CACHE_CHECK (the get of lines 182 / 200), HIT,   *)
(* MISS, CLASSIFY (the classifier call is in flight), RESOLVE (the scene name *)
(* is resolved), CANONICAL and SEARCH_LOOKUP (lines 206-210), FALLBACK and    *)
(* BUILD_DYNAMIC (lines 217-244), NO_FALLBACK (lines 212-215), DONE (return)  *)
(* and FAIL (raise).                                                          *)

\* the request moves to phase p
Goto(p) == [machine EXCEPT !.phase = p, !.trace = Append(@, p)]

\* the request raises
Fail(m, kind) == [m EXCEPT !.phase = "FAIL", !.trace = Append(@, "FAIL"), !.error = kind]

\* lines 259-261: the result is stored and returned
Done(m, result) ==
    /\ machine' = [m EXCEPT !.phase = "DONE", !.trace = Append(@, "DONE"), !.ret = <<result>>]
    /\ rec_cache' = TTLCache_set(rec_cache, m.key[1], result, now)

\* a request arrives
MBegin(genre, tags, raw_text) ==
    /\ machine.phase \in {"IDLE", "DONE", "FAIL"}
    /\ machine' = [NoMachine EXCEPT !.phase = "START", !.trace = <<"START">>,
                                    !.genre = genre, !.tags = tags, !.raw_text = raw_text]
    /\ UNCHANGED <<race, tagger, ai_client, yt, requests, now, cache, rec_cache, call, prev, storage,
                   last_set, got, resolver>>

\* lines 175-199: the path, the normalised tags, the key; the tags path refuses
\* a request without usable tag or without classifier
MStart ==
    /\ machine.phase = "START"
    /\ \E use_raw \in {UseRaw(machine.raw_text)} :
       \E tags \in {IF use_raw THEN <<T_speech_input>> ELSE normalize_tags(machine.tags)} :
       \E m \in {[machine EXCEPT !.use_raw = use_raw, !.normalized_tags = tags]} :
          machine' =
              IF ~use_raw /\ (tags = <<>> \/ ai_client = None)
              THEN Fail(m, "RecommendationUnavailable")
              ELSE [m EXCEPT !.phase = "CACHE_CHECK", !.trace = Append(@, "CACHE_CHECK"),
                             !.key = <<RecommendKey(machine.genre, use_raw,
                                                    machine.raw_text, tags)>>]
    /\ UNCHANGED <<race, tagger, ai_client, yt, requests, now, cache, rec_cache, call, prev, storage,
                   last_set, got, resolver>>

\* lines 182-183 / 200-201: self._rec_cache.get(cache_key_rec)
MCacheCheck ==
    /\ machine.phase = "CACHE_CHECK"
    /\ LET cached == TTLCache_get(rec_cache, machine.key[1], now)
       IN  machine' = IF cached # None
                      THEN [Goto("HIT") EXCEPT !.ret = cached]
                      ELSE Goto("MISS")
    /\ rec_cache' = TTLCache_get_storage(rec_cache, machine.key[1], now)
    /\ UNCHANGED <<race, tagger, ai_client, yt, requests, now, cache, call, prev, storage, last_set,
                   got, resolver>>

\* a variant that asks the classifier although the cache answered
MHit_classify ==
    /\ machine.phase = "HIT"
    /\ machine' = [Goto("CLASSIFY") EXCEPT !.ai_calls = @ + 1]
    /\ UNCHANGED <<race, tagger, ai_client, yt, requests, now, cache, rec_cache, call, prev, storage,
                   last_set, got, resolver>>

\* lines 183 / 202: return cached
MHit ==
    /\ machine.phase = "HIT"
    /\ machine' = Goto("DONE")
    /\ UNCHANGED <<race, tagger, ai_client, yt, requests, now, cache, rec_cache, call, prev, storage,
                   last_set, got, resolver>>

\* lines 186 / 204: the classifier is called
MMiss ==
    /\ machine.phase = "MISS"
    /\ machine' = [Goto("CLASSIFY") EXCEPT !.ai_calls = @ + 1]
    /\ UNCHANGED <<race, tagger, ai_client, yt, requests, now, cache, rec_cache, call, prev, storage,
                   last_set, got, resolver>>

\* _call_ai lines 280-286, _call_ai_with_text lines 298-304: the classifier
\* answers, or its error is raised as RecommendationUnavailable
MClassify(ai_outcome) ==
    /\ machine.phase = "CLASSIFY"
    /\ machine' = IF ai_outcome.error # ""
                  THEN Fail(machine, ClassifierError(ai_outcome))
                  ELSE [Goto("RESOLVE") EXCEPT !.prediction = ai_outcome.prediction]
    /\ UNCHANGED <<race, tagger, ai_client, yt, requests, now, cache, rec_cache, call, prev, storage,
                   last_set, got, resolver>>

\* the scene the classifier's answer resolves to: _canonical_scene_slug on the
\* tags path (line 285), None on the raw-text path (line 306)
MCanonicalScene ==
    IF machine.use_raw THEN None
    ELSE canonical_scene_slug(SceneKeys(Genres[Lower(machine.genre)]),
                              machine.prediction[1].scene)

\* lines 285 / 306 and 206-215: the scene is resolved and the branch is chosen
MResolve ==
    /\ machine.phase = "RESOLVE"
    /\ machine' =
          IF ~GenreKnown(machine.genre)
          THEN Fail(machine, IF machine.use_raw THEN "KeyError" ELSE "GenreNotFound")
          ELSE IF MCanonicalScene # None
          THEN [Goto("CANONICAL") EXCEPT !.canonical_scene = MCanonicalScene]
          ELSE IF get_dynamic_defaults(machine.genre) = None
          THEN Goto("NO_FALLBACK")
          ELSE Goto("FALLBACK")
    /\ UNCHANGED <<race, tagger, ai_client, yt, requests, now, cache, rec_cache, call, prev, storage,
                   last_set, got, resolver>>

\* line 206: if canonical_scene, the search is called
MCanonical ==
    /\ machine.phase = "CANONICAL"
    /\ machine' = Goto("SEARCH_LOOKUP")
    /\ UNCHANGED <<race, tagger, ai_client, yt, requests, now, cache, rec_cache, call, prev, storage,
                   last_set, got, resolver>>

\* the request after the search of line 207 did found
MSearchDone(found) ==
    /\ cache' = found.cache
    /\ IF found.outcome # "ok"
       THEN /\ machine' = [Fail(machine, found.outcome) EXCEPT !.yt_calls = found.yt_calls]
            /\ rec_cache' = rec_cache
       ELSE IF ~Validates(machine.prediction[1])
       THEN /\ machine' = [Fail(machine, "ValidationError") EXCEPT !.yt_calls = found.yt_calls]
            /\ rec_cache' = rec_cache
       ELSE Done([machine EXCEPT !.yt_calls = found.yt_calls],
                 RecommendationResult(found.ret[1], found.ret[1].scene, found.ret[1].query,
                                      found.ret[1].playlists, machine.normalized_tags,
                                      machine.prediction[1]))

\* lines 207-210 and 246-261: self.search(genre, canonical_scene)
MSearchLookup(yt_outcome) ==
    /\ machine.phase = "SEARCH_LOOKUP"
    /\ \E found \in {search(cache, machine.genre, machine.canonical_scene[1], yt_outcome)} :
          MSearchDone(found)
    /\ UNCHANGED <<race, tagger, ai_client, yt, requests, now, call, prev, storage, last_set, got,
                   resolver>>

\* lines 217-221: the slug of the classifier's scene name; an empty one is refused
MFallback ==
    /\ machine.phase = "FALLBACK"
    /\ machine' = IF normalize_token(machine.prediction[1].scene) = <<>>
                  THEN Fail(machine, "RecommendationUnavailable")
                  ELSE Goto("BUILD_DYNAMIC")
    /\ UNCHANGED <<race, tagger, ai_client, yt, requests, now, cache, rec_cache, call, prev, storage,
                   last_set, got, resolver>>

\* the SearchResult of lines 226-232
MBaseResult ==
    SearchResult(Lower(machine.genre), normalize_token(machine.prediction[1].scene),
                 machine.prediction[1].scene,
                 BuildAll(get_dynamic_defaults(machine.genre)[1].providers,
                          machine.prediction[1].scene),
                 None, <<>>)

\* lines 222-261: the links are built, the video search is asked once
MBuildDynamic(yt_outcome) ==
    /\ machine.phase = "BUILD_DYNAMIC"
    /\ IF yt # None /\ yt_outcome = "HTTPError"
       THEN /\ machine' = [Fail(machine, "HTTPError") EXCEPT !.yt_calls = 1]
            /\ rec_cache' = rec_cache
       ELSE IF ~Validates(machine.prediction[1])
       THEN /\ machine' = [Fail(machine, "ValidationError")
                              EXCEPT !.yt_calls = IF yt = None THEN 0 ELSE 1]
            /\ rec_cache' = rec_cache
       ELSE Done([machine EXCEPT !.yt_calls = IF yt = None THEN 0 ELSE 1],
                 RecommendationResult(
                     IF yt = None THEN MBaseResult
                     ELSE [MBaseResult EXCEPT !.youtube_video_ids = Enriched(@, yt_outcome)],
                     MBaseResult.scene, machine.prediction[1].scene, MBaseResult.playlists,
                     machine.normalized_tags, machine.prediction[1]))
    /\ UNCHANGED <<race, tagger, ai_client, yt, requests, now, cache, call, prev, storage, last_set,
                   got, resolver>>

\* lines 212-215: no dynamic_defaults
MNoFallback ==
    /\ machine.phase = "NO_FALLBACK"
    /\ machine' = Fail(machine, "RecommendationUnavailable")
    /\ UNCHANGED <<race, tagger, ai_client, yt, requests, now, cache, rec_cache, call, prev, storage,
                   last_set, got, resolver>>

\* one statement of the request in flight; the collaborators return
MStep ==
    \/ MStart
    \/ MCacheCheck
    \/ MHit
    \/ MMiss
    \/ \E ai_outcome \in AiChoices : MClassify(ai_outcome)
    \/ MResolve
    \/ MCanonical
    \/ \E yt_outcome \in YtChoices : MSearchLookup(yt_outcome)
    \/ MFallback
    \/ \E yt_outcome \in YtChoices : MBuildDynamic(yt_outcome)
    \/ MNoFallback

NextMachine ==
    \/ \E genre \in requests.genres, tags \in requests.tag_lists,
          raw_text \in requests.raw_texts : MBegin(genre, tags, raw_text)
    \/ MStart
    \/ MCacheCheck
    \/ MHit
    \/ MMiss
    \/ \E ai_outcome \in AiChoices : MClassify(ai_outcome)
    \/ MResolve
    \/ MCanonical
    \/ \E yt_outcome \in YtChoices : MSearchLookup(yt_outcome)
    \/ MFallback
    \/ \E yt_outcome \in YtChoices : MBuildDynamic(yt_outcome)
    \/ MNoFallback
    \/ Tick

\* a request in flight runs on: recommend is straight-line code between the
\* calls to its collaborators, and these return
SpecMachine == Init /\ [][NextMachine]_vars /\ WF_vars(MStep)

\* the transitions of the state machine as it is specified
SpecifiedTransitions ==
    { <<"START", "CACHE_CHECK">>, <<"CACHE_CHECK", "HIT">>, <<"HIT", "DONE">>,
      <<"CACHE_CHECK", "MISS">>, <<"MISS", "CLASSIFY">>, <<"CLASSIFY", "RESOLVE">>,
      <<"RESOLVE", "CANONICAL">>, <<"CANONICAL", "SEARCH_LOOKUP">>,
      <<"SEARCH_LOOKUP", "DONE">>, <<"RESOLVE", "FALLBACK">>,
      <<"FALLBACK", "BUILD_DYNAMIC">>, <<"BUILD_DYNAMIC", "DONE">>,
      <<"RESOLVE", "NO_FALLBACK">>, <<"NO_FALLBACK", "FAIL">> }

\* the stages a request can raise from, besides NO_FALLBACK
FailureExits ==
    { <<"START", "FAIL">>, <<"CLASSIFY", "FAIL">>, <<"RESOLVE", "FAIL">>,
      <<"FALLBACK", "FAIL">>, <<"SEARCH_LOOKUP", "FAIL">>, <<"BUILD_DYNAMIC", "FAIL">> }

\* every change of phase within a request is one of the transitions
FollowsOnly(transitions) ==
    (machine'.phase # machine.phase /\ machine'.phase # "START") =>
        <<machine.phase, machine'.phase>> \in transitions

\* the classifier is called from MISS only, after the cache check
ClassifierAfterCacheCheck ==
    machine'.ai_calls > machine.ai_calls =>
        /\ machine.phase = "MISS" /\ machine'.phase = "CLASSIFY"
        /\ machine'.ai_calls = 1
        /\ \E i \in DOMAIN machine.trace : machine.trace[i] = "CACHE_CHECK"

\* every request comes to an end
Terminates == (machine.phase = "START") ~> (machine.phase \in {"DONE", "FAIL"})

-----------------------------------------------------------------------------
(* Two threads on one TTLCache, each running get(key) and, after a miss,     *)
(* set(key, value), statement by statement.  TTLCache takes no lock; one     *)
(* dict operation (get, pop, item assignment) is one step.                   *)

Threads == {1, 2}

\* the value thread i builds after its miss
RaceValue(i) == i

\* what the cache may hold when the threads start: an entry under another
\* key, live or expired, and possibly an entry under the key of the requests
RaceStorages ==
    { [k \in {"k2"} |-> CacheEntry(0, e2)] : e2 \in {0, MaxTime + 1} }
    \cup { [k \in {"k1", "k2"} |-> CacheEntry(0, IF k = "k1" THEN e1 ELSE e2)] :
              e1 \in 0..MaxTime, e2 \in {0, MaxTime + 1} }

\* a variant of pop that empties the dict
StoragePop_clear(st, key) == EmptyStorage

\* self._storage.pop(key, None)
StoragePop(st, key) == [k \in DOMAIN st \ {key} |-> st[k]]

\* line 27: entry = self._storage.get(key)
RaceRead(i) ==
    /\ race.pc[i] = "read"
    /\ race' = [race EXCEPT !.pc[i] = "check",
                            !.entry[i] = IF race.key \in DOMAIN storage
                                         THEN <<storage[race.key]>> ELSE None]
    /\ UNCHANGED <<machine, tagger, ai_client, yt, requests, now, cache, rec_cache, call, prev,
                   storage, last_set, got, resolver>>

\* lines 28-30 and 33: no entry is a miss, an expired entry is to be popped, a
\* live entry is returned
RaceCheck(i) ==
    /\ race.pc[i] = "check"
    /\ race' = [race EXCEPT !.pc[i] = IF race.entry[i] = None THEN "missed"
                                      ELSE IF race.entry[i][1].expires_at < now THEN "pop"
                                      ELSE "hit"]
    /\ UNCHANGED <<machine, tagger, ai_client, yt, requests, now, cache, rec_cache, call, prev,
                   storage, last_set, got, resolver>>

\* lines 31-32: the pop removes whatever the key holds by now
RacePop(i) ==
    /\ race.pc[i] = "pop"
    /\ storage' = StoragePop(storage, race.key)
    /\ race' = [race EXCEPT !.pc[i] = "missed",
                            !.popped[i] = IF race.key \in DOMAIN storage
                                          THEN <<storage[race.key]>> ELSE None]
    /\ UNCHANGED <<machine, tagger, ai_client, yt, requests, now, cache, rec_cache, call, prev,
                   last_set, got, resolver>>

\* line 36, after the caller has built its value: expires_at = time.time() + ttl
RaceSetTime(i) ==
    /\ race.pc[i] = "missed"
    /\ race' = [race EXCEPT !.pc[i] = "store", !.set_at[i] = now]
    /\ UNCHANGED <<machine, tagger, ai_client, yt, requests, now, cache, rec_cache, call, prev,
                   storage, last_set, got, resolver>>

\* line 37: self._storage[key] = _CacheEntry(value, expires_at)
RaceStore(i) ==
    /\ race.pc[i] = "store"
    /\ storage' = TTLCache_set(storage, race.key, RaceValue(i), race.set_at[i])
    /\ race' = [race EXCEPT !.pc[i] = "done", !.sets[i] = @ + 1]
    /\ UNCHANGED <<machine, tagger, ai_client, yt, requests, now, cache, rec_cache, call, prev,
                   last_set, got, resolver>>

InitRace ==
    /\ IdleService
    /\ now = 0
    /\ storage \in RaceStorages
    /\ last_set = EmptyStorage
    /\ got = NoGet
    /\ resolver = NoResolve
    /\ machine = NoMachine
    /\ race = [NoRace EXCEPT !.started = TRUE, !.initial = storage,
                             !.pc = <<"read", "read">>]

NextRace ==
    \/ \E i \in Threads : RaceRead(i)
    \/ \E i \in Threads : RaceCheck(i)
    \/ \E i \in Threads : RacePop(i)
    \/ \E i \in Threads : RaceSetTime(i)
    \/ \E i \in Threads : RaceStore(i)
    \/ Tick

SpecRace == InitRace /\ [][NextRace]_vars

\* both threads missed and have stored their value
BothMissedAndStored == \A i \in Threads : race.pc[i] = "done"

\* C20: when two concurrent requests for one key both miss, both store their
\* value, the key ends with one entry holding one of the two values, and every
\* entry under another key is still there, unchanged.
C20_RaceKeepsOneEntry ==
    (race.started /\ BothMissedAndStored) =>
        /\ race.sets = <<1, 1>>
        /\ race.key \in DOMAIN storage
        /\ \E i \in Threads :
              storage[race.key] = CacheEntry(RaceValue(i), race.set_at[i] + cache_ttl_sec)
        /\ DOMAIN storage = DOMAIN race.initial \cup {race.key}
        /\ \A k \in DOMAIN storage \ {race.key} : storage[k] = race.initial[k]

\* the second thread's pop removed the entry the first thread had just stored
C20_Witness ==
    /\ race.started /\ BothMissedAndStored
    /\ \E i \in Threads :
          /\ race.popped[i] # None
          /\ race.popped[i] # race.entry[i]
          /\ race.popped[i][1].value = RaceValue(3 - i)
          /\ storage[race.key].value = RaceValue(i)

-----------------------------------------------------------------------------
(* app/ai_client.py: NeuralTaggerClient.recommend_scene, one HTTP post a     *)
(* step.  A response is a status and a body; a body that decodes is a JSON   *)
(* value, which the code inspects with isinstance, get, in and or.           *)

\* JSON values as response.json() returns them
J_null == [null |-> TRUE]
J_str(text) == [str |-> text]
J_num(n) == [num |-> n]
J_dict(fields) == [dict |-> fields]
J_list(items) == [list |-> items]

IsNone(j) == "null" \in DOMAIN j
IsStr(j) == "str" \in DOMAIN j
IsNum(j) == "num" \in DOMAIN j
IsDict(j) == "dict" \in DOMAIN j
IsList(j) == "list" \in DOMAIN j

\* key in d
Has(d, key) == key \in DOMAIN d.dict

\* d.get(key)
DictGet(d, key) == IF Has(d, key) THEN d.dict[key] ELSE J_null

\* bool(j); every dict drawn here has a key
Truthy(j) ==
    IF IsNone(j) THEN FALSE
    ELSE IF IsStr(j) THEN j.str # <<>>
    ELSE IF IsNum(j) THEN j.num # 0
    ELSE IF IsList(j) THEN j.list # <<>>
    ELSE TRUE

\* a or b
Or(a, b) == IF Truthy(a) THEN a ELSE b

\* str(j) of a string or of a one-digit number
Str(j) ==
    IF IsStr(j) THEN j.str
    ELSE << <<"0", "1", "2", "3", "4", "5", "6", "7", "8", "9">>[j.num + 1] >>

\* text.split() on blanks, empty parts included
RECURSIVE SplitSpace(_, _, _)
SplitSpace(s, parts, cur) ==
    IF s = <<>> THEN parts \o <<cur>>
    ELSE IF IsSpace(Head(s)) THEN SplitSpace(Tail(s), parts \o <<cur>>, <<>>)
    ELSE SplitSpace(Tail(s), parts, Append(cur, Head(s)))

\* " ".join(text.split()) of line 364
CollapseSpaces(text) == Join(DropEmpty(SplitSpace(text, <<>>, <<>>)), <<" ">>)

\* lines 197-205: the scene block, the confidence and the reason of the answer
\* or of its "result"
FirstBlock(data) ==
    LET payload_data == IF IsDict(data) THEN DictGet(data, "result") ELSE J_null
        chosen == IF IsDict(payload_data) THEN payload_data ELSE data
    IN  IF IsDict(chosen)
        THEN [scene_block |-> DictGet(chosen, "scene"),
              confidence |-> DictGet(chosen, "confidence"),
              reason |-> DictGet(chosen, "reason"), error |-> ""]
        ELSE [scene_block |-> J_null, confidence |-> J_null, reason |-> J_null,
              error |-> ""]

HasGenerated(d) == Has(d, "generated_text") \/ Has(d, "summary_text")

\* lines 208-216: a generation answer, one object or a list of them
Generated(data, b) ==
    IF ~IsNone(b.scene_block) THEN b
    ELSE IF IsDict(data) /\ HasGenerated(data)
    THEN [b EXCEPT !.scene_block =
              Or(DictGet(data, "generated_text"), DictGet(data, "summary_text"))]
    ELSE IF IsList(data) /\ Truthy(data) /\ IsDict(data.list[1])
            /\ HasGenerated(data.list[1])
    THEN [b EXCEPT !.scene_block =
              Or(DictGet(data.list[1], "generated_text"),
                 DictGet(data.list[1], "summary_text"))]
    ELSE b

\* scene_block = labels_list[0] and, when there is no confidence yet,
\* confidence = scores_list[0]
TakeLabel(b, label, scores_list) ==
    [b EXCEPT !.scene_block = label,
              !.confidence = IF ~Truthy(@) /\ IsList(scores_list) /\ Truthy(scores_list)
                             THEN scores_list.list[1] ELSE @]

\* lines 217-232: a zero-shot answer.  In the list form labels_list is not
\* checked to be a list before labels_list[0]: a string gives its first
\* character, a number raises TypeError.
Labelled(data, b) ==
    IF ~IsNone(b.scene_block) THEN b
    ELSE IF IsDict(data) /\ IsList(DictGet(data, "labels"))
    THEN IF Truthy(DictGet(data, "labels"))
         THEN TakeLabel(b, DictGet(data, "labels").list[1],
                        Or(DictGet(data, "scores"), J_list(<<>>)))
         ELSE b
    ELSE IF IsList(data) /\ Truthy(data) /\ IsDict(data.list[1])
    THEN LET labels_list == Or(DictGet(data.list[1], "labels"), J_list(<<>>))
             scores_list == Or(DictGet(data.list[1], "scores"), J_list(<<>>))
         IN  IF ~Truthy(labels_list) THEN b
             ELSE IF IsList(labels_list) THEN TakeLabel(b, labels_list.list[1], scores_list)
             ELSE IF IsStr(labels_list)
             THEN TakeLabel(b, J_str(<<Head(labels_list.str)>>), scores_list)
             ELSE [b EXCEPT !.error = "TypeError"]
    ELSE b

\* lines 234-248: the scene name, the confidence and the reason
RawScene(data, b) ==
    IF IsDict(b.scene_block)
    THEN [raw_scene |-> Or(Or(Or(DictGet(b.scene_block, "name"),
                                 DictGet(b.scene_block, "value")),
                              DictGet(b.scene_block, "slug")),
                           DictGet(b.scene_block, "scene")),
          confidence |-> Or(Or(b.confidence, DictGet(b.scene_block, "confidence")),
                            DictGet(b.scene_block, "score")),
          reason |-> Or(Or(Or(b.reason, DictGet(b.scene_block, "reason")),
                           DictGet(b.scene_block, "comment")),
                        DictGet(b.scene_block, "explanation"))]
    ELSE [raw_scene |-> b.scene_block,
          confidence |-> IF IsDict(data) /\ IsNone(b.confidence)
                         THEN DictGet(data, "score") ELSE b.confidence,
          reason |-> IF IsDict(data) /\ IsNone(b.reason)
                     THEN Or(DictGet(data, "comment"), DictGet(data, "explanation"))
                     ELSE b.reason]

\* lines 250-258.  float() of the strings drawn here raises ValueError, of a
\* dict or a list TypeError; both are converted.
Predict(r) ==
    IF ~Truthy(r.raw_scene) THEN Failed("NeuralTaggerError")
    ELSE IF ~IsNone(r.confidence) /\ ~IsNum(r.confidence) THEN Failed("NeuralTaggerError")
    ELSE Returned(ScenePrediction(
             Lower(Str(r.raw_scene)),
             IF IsNone(r.confidence) THEN None ELSE <<r.confidence.num>>,
             IF IsStr(r.reason) THEN <<r.reason.str>> ELSE None))

\* lines 186-258 on the decoded body
FromData(data) ==
    IF IsDict(data) /\ Truthy(DictGet(data, "error")) THEN Failed("NeuralTaggerError")
    ELSE IF Labelled(data, Generated(data, FirstBlock(data))).error # ""
    THEN Failed(Labelled(data, Generated(data, FirstBlock(data))).error)
    ELSE Predict(RawScene(data, Labelled(data, Generated(data, FirstBlock(data)))))

\* a variant that converts a body that does not decode
Answer_converting(response) ==
    IF response.status # 200 THEN Failed("NeuralTaggerError")
    ELSE IF response.body.json = None THEN Failed("NeuralTaggerError")
    ELSE FromData(response.body.json[1])

\* lines 157-258 on the final response: response.json() of line 186 is outside
\* every try block
Answer(response) ==
    IF response.status # 200 THEN Failed("NeuralTaggerError")
    ELSE IF response.body.json = None THEN Failed("JSONDecodeError")
    ELSE FromData(response.body.json[1])

\* data["choices"][0]["message"]["content"], None when the lookup raises
ChatContent(data) ==
    IF /\ IsDict(data) /\ Has(data, "choices")
       /\ IsList(data.dict["choices"]) /\ Truthy(data.dict["choices"])
       /\ IsDict(data.dict["choices"].list[1])
       /\ Has(data.dict["choices"].list[1], "message")
       /\ IsDict(data.dict["choices"].list[1].dict["message"])
       /\ Has(data.dict["choices"].list[1].dict["message"], "content")
    THEN <<data.dict["choices"].list[1].dict["message"].dict["content"]>>
    ELSE None

\* lines 354-368 of _call_openai_chat: resp.json() of line 359 is outside the try
ChatAnswer(response) ==
    IF response.status # 200 THEN Failed("NeuralTaggerError")
    ELSE IF response.body.json = None THEN Failed("JSONDecodeError")
    ELSE IF ChatContent(response.body.json[1]) = None THEN Failed("NeuralTaggerError")
    ELSE IF ~Truthy(ChatContent(response.body.json[1])[1]) THEN Failed("NeuralTaggerError")
    ELSE IF CollapseSpaces(Strip(Str(ChatContent(response.body.json[1])[1]))) = <<>>
    THEN Failed("NeuralTaggerError")
    ELSE Returned(ScenePrediction(
             Lower(CollapseSpaces(Strip(Str(ChatContent(response.body.json[1])[1])))),
             None, None))

Endpoints ==
    { Endpoint(FALSE, FALSE, FALSE, FALSE),   \* the recommendation service
      Endpoint(FALSE, FALSE, TRUE, TRUE),     \* huggingface.co/models/org/model
      Endpoint(FALSE, FALSE, TRUE, FALSE),    \* a hf.space host
      Endpoint(TRUE, TRUE, FALSE, FALSE),     \* /chat/completions?model=m
      Endpoint(TRUE, FALSE, FALSE, FALSE) }   \* /chat/completions, no model

J_Battle == J_str(<<"B", "a", "t", "t", "l", "e">>)
J_reason == J_str(<<"r">>)

Decoded(data) == [json |-> <<data>>, zero_shot |-> FALSE]

\* the bodies a server sends: the answer shapes of lines 192-196, a generation
\* answer, a chat answer, answers with an error, without a scene, with a blank
\* scene, with a confidence that is no number, and a body that is not JSON
Bodies ==
    { Decoded(J_dict([scene |-> J_Battle, confidence |-> J_num(8), reason |-> J_reason])),
      Decoded(J_dict([result |-> J_dict([scene |-> J_Battle])])),
      Decoded(J_dict([scene |-> J_dict([name |-> J_Battle, score |-> J_num(8),
                                        comment |-> J_reason])])),
      Decoded(J_dict([labels |-> J_list(<<J_Battle, J_str(T_tension)>>),
                      scores |-> J_list(<<J_num(9), J_num(1)>>)])),
      Decoded(J_list(<<J_dict([generated_text |-> J_Battle])>>)),
      Decoded(J_list(<<J_dict([labels |-> J_list(<<J_Battle>>)])>>)),
      Decoded(J_list(<<J_dict([labels |-> J_num(5)])>>)),
      Decoded(J_list(<<>>)),
      Decoded(J_dict([choices |-> J_list(<<J_dict([message |->
                  J_dict([content |-> J_str(<<" ", "B", "a", " ", " ", "D", " ">>)])])>>)])),
      Decoded(J_dict([choices |-> J_list(<<J_dict([message |->
                  J_dict([content |-> J_str(<<" ">>)])])>>)])),
      Decoded(J_dict([error |-> J_str(<<"b", "u", "s", "y">>)])),
      Decoded(J_dict([sequence |-> J_str(<<"x">>)])),
      Decoded(J_dict([scene |-> J_str(<<>>)])),
      Decoded(J_dict([scene |-> J_str(<<" ">>)])),
      Decoded(J_dict([scene |-> J_Battle, confidence |-> J_str(<<"h", "i">>)])),
      Decoded(J_num(5)),
      [json |-> <<J_dict([error |-> J_str(<<"z", "s">>)])>>, zero_shot |-> TRUE],
      [json |-> None, zero_shot |-> FALSE] }

Responses == [status : {200, 503}, body : Bodies]

\* what one client.post gives: None for an httpx.HTTPError, else the response
PostOutcomes == {None} \cup { <<response>> : response \in Responses }

TaggerVars == <<machine, race, ai_client, yt, requests, now, cache, rec_cache, call, prev,
                storage, last_set, got, resolver>>

TaggerDone(outcome) == tagger' = [tagger EXCEPT !.pc = "done", !.outcome = outcome]

\* lines 59-98, and 316-321 of _call_openai_chat
TaggerBegin ==
    /\ tagger.pc \in {"idle", "done"}
    /\ tagger' = [tagger EXCEPT
                     !.pc = IF ~tagger.endpoint.chat THEN "post"
                            ELSE IF tagger.endpoint.model THEN "chat" ELSE "done",
                     !.attempt = 1, !.response = None,
                     !.outcome = IF tagger.endpoint.chat /\ ~tagger.endpoint.model
                                 THEN Failed("NeuralTaggerError")
                                 ELSE NoTagger.outcome]
    /\ UNCHANGED TaggerVars

\* lines 131-155 after the attempts, then lines 157-258 unless a zero-shot post
\* follows
AfterAttempts(response) ==
    IF response.status # 200 /\ tagger.endpoint.plain /\ response.body.zero_shot
    THEN IF ~tagger.labels
         THEN tagger' = [tagger EXCEPT !.pc = "done", !.response = <<response>>,
                                       !.outcome = Failed("NeuralTaggerError")]
         ELSE tagger' = [tagger EXCEPT !.pc = "zero_shot", !.response = <<response>>]
    ELSE tagger' = [tagger EXCEPT !.pc = "done", !.response = <<response>>,
                                  !.outcome = Answer(response)]

\* one turn of the loop of lines 109-121 and, after the last, lines 122-258
TaggerPost(posted) ==
    /\ tagger.pc = "post"
    /\ IF posted # None /\ posted[1].status = 200
       THEN AfterAttempts(posted[1])
       ELSE IF tagger.attempt < (IF tagger.endpoint.alt THEN 2 ELSE 1)
       THEN tagger' = [tagger EXCEPT !.attempt = @ + 1,
                                     !.response = IF posted = None THEN @ ELSE posted]
       ELSE IF posted = None /\ tagger.response = None
       THEN TaggerDone(Failed("NeuralTaggerError"))
       ELSE AfterAttempts(IF posted = None THEN tagger.response[1] ELSE posted[1])
    /\ UNCHANGED TaggerVars

\* lines 144-155, then lines 157-258
TaggerZeroShot(posted) ==
    /\ tagger.pc = "zero_shot"
    /\ IF posted = None THEN TaggerDone(Failed("NeuralTaggerError"))
       ELSE tagger' = [tagger EXCEPT !.pc = "done", !.response = posted,
                                     !.outcome = Answer(posted[1])]
    /\ UNCHANGED TaggerVars

\* lines 350-368 of _call_openai_chat
TaggerChat(posted) ==
    /\ tagger.pc = "chat"
    /\ IF posted = None THEN TaggerDone(Failed("NeuralTaggerError"))
       ELSE tagger' = [tagger EXCEPT !.pc = "done", !.response = posted,
                                     !.outcome = ChatAnswer(posted[1])]
    /\ UNCHANGED TaggerVars

InitTagger ==
    /\ ai_client = None
    /\ yt = None
    /\ requests = 0
    /\ cache = EmptyStorage
    /\ rec_cache = EmptyStorage
    /\ call = NoCall
    /\ prev = Args(NoCall)
    /\ now = 0
    /\ storage = EmptyStorage
    /\ last_set = EmptyStorage
    /\ got = NoGet
    /\ resolver = NoResolve
    /\ machine = NoMachine
    /\ race = NoRace
    /\ tagger \in { [NoTagger EXCEPT !.endpoint = e, !.labels = l] :
                       e \in Endpoints, l \in BOOLEAN }

NextTagger ==
    \/ TaggerBegin
    \/ \E posted \in PostOutcomes : TaggerPost(posted)
    \/ \E posted \in PostOutcomes : TaggerZeroShot(posted)
    \/ \E posted \in PostOutcomes : TaggerChat(posted)

SpecTagger == InitTagger /\ [][NextTagger]_vars

\* C24: the classifier client either returns a ScenePrediction with a
\* non-empty scene name or fails with NeuralTaggerError and nothing else,
\* whatever the transport does and whatever status and body the server sends.
C24_SingleErrorKind ==
    tagger.pc = "done" =>
        \/ tagger.outcome.error = "NeuralTaggerError" /\ tagger.outcome.prediction = None
        \/ /\ tagger.outcome.error = ""
           /\ tagger.outcome.prediction # None
           /\ tagger.outcome.prediction[1].scene # <<>>

-----------------------------------------------------------------------------
(* Properties of search and recommend *)

SearchKey(c) == <<Lower(c.genre), Lower(c.scene)>>

InCatalog(genre, scene) == get_scene_config(genre, scene).error = ""

\* the request takes the tags branch of recommend
TagsPath(c) == c.raw_text = None \/ Strip(c.raw_text[1]) = <<>> \/ ai_client = None

Trimmed(tags) == [i \in 1..Len(tags) |-> Lower(Strip(tags[i]))]

Count(x, seq) == Cardinality({i \in 1..Len(seq) : seq[i] = x})

IsPermutation(a, b) ==
    /\ Len(a) = Len(b)
    /\ \A i \in 1..Len(a) : Count(a[i], a) = Count(a[i], b)

NoUsableTag(tags) == \A i \in 1..Len(tags) : Strip(tags[i]) = <<>>

NoRawText(raw_text) == raw_text = None \/ Strip(raw_text[1]) = <<>>

\* the scene keys of a known genre
GenreScenes(genre) == SceneKeys(Genres[Lower(genre)])

\* no scene key of the genre equals the name in normalized form or is one of its tokens
NoSceneMatches(genre, name) ==
    \A i \in 1..Len(GenreScenes(genre)) :
        /\ normalize_token(GenreScenes(genre)[i]) # normalize_token(name)
        /\ ~InTokens(normalize_token(GenreScenes(genre)[i]), tokenize(name))

\* the end of the TTL window opened by the previous call: the expiry of the
\* result it returned, or of the result it should have stored
WindowEnd(c) == (IF c.outcome = "ok" THEN c.ret[1].born ELSE c.at) + cache_ttl_sec

ExactScene(genre, name) ==
    FirstMatch(GenreScenes(genre),
               {id \in Range(GenreScenes(genre)) : normalize_token(id) = normalize_token(name)})

C7_FallbackResult ==
    ( /\ call.op = "recommend"
      /\ call.prediction # None
      /\ GenreKnown(call.genre)
      /\ NoSceneMatches(call.genre, call.prediction[1].scene)
      /\ normalize_token(call.prediction[1].scene) # <<>>
      /\ Genres[Lower(call.genre)].dynamic_defaults # None )
    => LET name == call.prediction[1].scene
           fallback == Genres[Lower(call.genre)].dynamic_defaults[1]
       IN  /\ call.outcome = "ok"
           /\ call.ret[1].scene = normalize_token(name)
           /\ call.ret[1].query = name
           /\ call.ret[1].playlists = BuildAll(fallback.providers, name)

\* C8: a classifier scene name that matches no scene of the genre, for a genre
\* without dynamic fallback, makes recommend fail with
\* RecommendationUnavailable, without a result.
C8_NoFallbackFails ==
    ( /\ call.op = "recommend"
      /\ call.prediction # None
      /\ GenreKnown(call.genre)
      /\ NoSceneMatches(call.genre, call.prediction[1].scene)
      /\ Genres[Lower(call.genre)].dynamic_defaults = None )
    => ( /\ call.outcome = "RecommendationUnavailable"
         /\ call.ret = None
         /\ call.rec_writes = 0 )

C8_Witness ==
    /\ call.op = "recommend" /\ TagsPath(call)
    /\ call.genre = T_horror
    /\ call.prediction = <<P_bazaar>>
    /\ call.outcome = "RecommendationUnavailable"

\* C9: recommend fails with RecommendationUnavailable and without any
\* classifier call when no tag is usable and no non-blank raw text is given,
\* and when no classifier is configured.
C9_RefusedBeforeClassifier ==
    ( /\ call.op = "recommend"
      /\ \/ NoUsableTag(call.tags) /\ NoRawText(call.raw_text)
         \/ ai_client = None )
    => ( /\ call.outcome = "RecommendationUnavailable"
         /\ call.ret = None
         /\ call.ai_calls = 0 )

C9_Witness ==
    /\ call.op = "recommend"
    /\ ai_client # None
    /\ call.tags # <<>> /\ NoUsableTag(call.tags) /\ NoRawText(call.raw_text)
    /\ call.outcome = "RecommendationUnavailable"

\* C11: for a genre that is not in the catalog, a recommend call whose
\* classifier answered fails with GenreNotFound, on the tags path and on the
\* raw-text path.
C11_UnknownGenreNotFound ==
    ( /\ call.op = "recommend"
      /\ ~GenreKnown(call.genre)
      /\ call.prediction # None )
    => ( /\ call.outcome = "GenreNotFound"
         /\ call.ret = None )

\* C12: a recommend call ends with a complete result, with GenreNotFound or
\* with RecommendationUnavailable, a failed classifier call always with the
\* last, and with nothing else.
C12_ThreeOutcomes ==
    call.op = "recommend" =>
        /\ call.outcome \in {"ok", "GenreNotFound", "RecommendationUnavailable"}
        /\ call.outcome = "ok" <=> call.ret # None
        /\ call.outcome = "ok" =>
              /\ call.ret[1].scene # <<>>
              /\ call.ret[1].playlists # <<>>
              /\ call.ret[1].tags # <<>>
        /\ (call.ai_calls = 1 /\ call.prediction = None) =>
              call.outcome = "RecommendationUnavailable"

\* C13: search fails with GenreNotFound for a genre that is not in the
\* catalog, whatever the scene, and with SceneNotFound for a scene that is not
\* in a known genre; neither call changes the search cache.
C13_SearchLookupErrors ==
    [][ ( /\ now' = now
          /\ call'.op = "search"
          /\ ~InCatalog(call'.genre, call'.scene) )
        => ( /\ call'.outcome = IF GenreKnown(call'.genre) THEN "SceneNotFound"
                                ELSE "GenreNotFound"
             /\ call'.ret = None
             /\ call'.cache_writes = 0
             /\ cache' = cache ) ]_vars

C13_Witness ==
    /\ prev.op = "search" /\ prev.outcome = "GenreNotFound"
    /\ call.op = "search" /\ call.outcome = "SceneNotFound"
    /\ GenreKnown(call.genre)
    /\ cache = EmptyStorage

StoredFor(c) ==
    IF c.op = "search"
    THEN IF SearchKey(c) \in DOMAIN cache THEN <<cache[SearchKey(c)].value>> ELSE None
    ELSE IF c.rec_key # None /\ c.rec_key[1] \in DOMAIN rec_cache
         THEN <<rec_cache[c.rec_key[1]].value>> ELSE None

\* C17: a call whose video search fails still returns its result, without
\* video ids, and caches it.
C17_VideoSearchFailureSwallowed ==
    (call.yt_outcome = <<"YouTubeApiError">> \/ call.yt_outcome = <<"HTTPError">>) =>
        /\ call.outcome = "ok"
        /\ call.ret[1].youtube_video_ids = <<>>
        /\ StoredFor(call) = call.ret

\* the scene of the catalog carries a fixed video list
FixedVideoList(genre, scene) ==
    /\ InCatalog(genre, scene)
    /\ get_scene_config(genre, scene).scene_config[1].youtube_video_ids # <<>>

SearchKeyOf(c) ==
    IF c.op = "search" THEN <<SearchKey(c)>>
    ELSE IF c.op = "recommend" /\ c.canonical_scene # None
    THEN << <<Lower(c.genre), c.canonical_scene[1]>> >>
    ELSE None

C21_ClassifierOnceNoRetry ==
    call.op = "recommend" =>
        /\ call.ai_calls \in {0, 1}
        /\ (call.ai_calls = 1 /\ call.prediction = None) =>
              /\ call.outcome = "RecommendationUnavailable"
              /\ call.searches = 0 /\ call.catalog_lookups = 0
              /\ call.yt_calls = 0
              /\ call.cache_writes = 0 /\ call.rec_writes = 0

\* every letter of the text is lowercase
IsLower(text) == text = Lower(text)

IsSorted(l) == \A i \in 1..Len(l) : \A j \in 1..Len(l) : i < j => ~StrLess(l[j], l[i])

\* the tags of the list that are not blank
UsableTags(tags) == SelectSeq(tags, LAMBDA t : Strip(t) # <<>>)

SceneIdWellFormed(result) ==
    /\ result.scene # <<>>
    /\ \/ /\ GenreKnown(result.genre)
          /\ \E i \in 1..Len(GenreScenes(result.genre)) :
                GenreScenes(result.genre)[i] = result.scene
       \/ result.scene = normalize_token(result.query)

C29_UnknownGenreNoExternalCall ==
    (call.op = "recommend" /\ ~GenreKnown(call.genre)) =>
        /\ call.ai_calls = 0
        /\ call.yt_calls = 0

\* the (genre, scene-id) pairs of the catalog
CatalogPairs ==
    UNION { { <<g, SceneKeys(Genres[g])[i]>> : i \in 1..Len(Genres[g].scenes) } :
              g \in DOMAIN Genres }

====
